---- MODULE Spec2Model ----
(***************************************************************************)
(* A model of streamlit_app.py: the carbon-footprint calculator (emission  *)
(* formula, on-screen suggestion rules, report email), the narrative email *)
(* body builder and the chatbot tab with its per-session transcript.       *)
(*                                                                         *)
(* Numbers.  The form's inputs are modelled as whole numbers in their own  *)
(* unit (kWh, km, kg, percent).  Emission values are kept in hundredths of *)
(* a kg CO2e, so 0.8 kg/kWh is the factor 80 and "169.00" is 16900.        *)
(* Strings are the source's literals with non-ASCII characters replaced    *)
(* (dashes by "-", emoji dropped).                                         *)
(***************************************************************************)
EXTENDS Integers, Sequences, FiniteSets, TLC

VARIABLES
    api_key,           \* GEMINI_API_KEY is set (module level, line 14)
    form,              \* the calculator's widgets (lines 331-350)
    user_q,            \* the chatbot's text input (line 485)
    chat_history,      \* st.session_state.chat_history
    clicked,           \* the button whose handler ran in the last script run
    inputs,            \* Calculate: the inputs dict handed to the email (line 455)
    chart,             \* Calculate: the bar chart's four components (line 447)
    emission_value,    \* Calculate: total, in hundredths of a kg
    suggestion_steps,  \* Calculate: the local list `suggestions` after each block
    suggestions,       \* Calculate: the final list `suggestions`
    email_suggestions, \* Calculate: suggestions[:3]
    top_suggestion,    \* Calculate: the "Top suggestion" shown
    outbox,            \* messages handed to server.send_message in the last run
    smtp_sessions,     \* SMTP connections opened in the last run
    gemini_log,        \* requests.post calls made in the last run, with their outcome
    status,            \* st.success / st.error / st.info / st.warning of the last run
    report,            \* build_personalised_body applied on its own: args and result
    call               \* call_gemini applied on its own: args and result

calcVars == <<inputs, chart, emission_value, suggestion_steps, suggestions,
              email_suggestions, top_suggestion>>
vars == <<api_key, form, user_q, chat_history, clicked, inputs, chart, emission_value,
          suggestion_steps, suggestions, email_suggestions, top_suggestion,
          outbox, smtp_sessions, gemini_log, status, report, call>>

\* st.success, st.error, st.info, st.warning
Status(level, text) == [level |-> level, text |-> text]

Range(s) == {s[i] : i \in 1..Len(s)}
IsPrefix(s, t) == Len(s) <= Len(t) /\ SubSeq(t, 1, Len(s)) = s
Max(a, b) == IF a >= b THEN a ELSE b
Min(a, b) == IF a <= b THEN a ELSE b

(***************************************************************************)
(* Emission model (tab_calc, lines 354-363), in hundredths of a kg.        *)
(***************************************************************************)
ElectricityFactor == 80
TravelFactor == 12
WasteFactor == 40
DietExtraMixed == 500
DietExtraNonveg == 1000

EnergyEmission(electricity) == electricity * ElectricityFactor
TransportEmission(travel) == travel * TravelFactor
WasteEmission(waste) == waste * WasteFactor

DietExtraSwapped(diet) ==
    IF diet = "mixed" THEN DietExtraNonveg
    ELSE IF diet = "nonveg" THEN DietExtraMixed
    ELSE 0

DietExtra(diet) ==
    IF diet = "mixed" THEN DietExtraMixed
    ELSE IF diet = "nonveg" THEN DietExtraNonveg
    ELSE 0

EmissionValue(electricity, travel, waste, diet) ==
    EnergyEmission(electricity) + TransportEmission(travel)
        + WasteEmission(waste) + DietExtra(diet)

(***************************************************************************)
(* On-screen suggestion rules (tab_calc, lines 367-433).                   *)
(***************************************************************************)
TIP_ENERGY_HIGH ==
    "Your electricity use is quite high. Shift fully to LED bulbs, keep AC at 24-26C, and unplug chargers/devices when not in use to reduce demand."
TIP_ENERGY_MODERATE ==
    "Focus on home energy efficiency: use LED bulbs, switch off fans/lights when you leave the room, and run washing machines only with full loads."
TIP_TRANSPORT_MAJOR ==
    "Your private vehicle travel is a major source of emissions. Try carpooling, using public transport, and combining errands so you drive fewer kilometres."
TIP_TRANSPORT_REPLACE ==
    "Replace some short private vehicle trips with walking, cycling, or public transport to cut fuel use and emissions."
TIP_TRANSPORT_KEEP ==
    "You already use public transport. Keep it up, and consider walking or cycling for very short distances."
TIP_DIET_REDUCE_MEAT ==
    "Your diet includes animal products. Reduce red meat and add more plant-based meals 2-3 days a week to lower food-related emissions."
TIP_DIET_FRIENDLY ==
    "Your diet is already climate-friendly. Continue focusing on seasonal, local foods and avoid food waste."
TIP_WASTE_SEGREGATE ==
    "You generate quite a lot of waste. Start segregating at source, compost kitchen scraps, and cut down on single-use plastics."
TIP_WASTE_REDUCE ==
    "Work on reducing waste by buying only what you need, reusing containers, and saying no to single-use plastics."
TIP_RENEWABLE ==
    "Increase your share of renewable energy over time - explore rooftop solar or green power options if they are available in your area."

generic == <<
    "Carry your own water bottle and cloth bag to avoid single-use plastics.",
    "Plant native trees or support local tree-planting drives.",
    "Review one habit each week (energy, travel, food, or waste) and try a small improvement." >>

DEFAULT_TOP_SUGGESTION == "Reduce electricity use or avoid short solo car trips."

ElectricityHigh == 250
ElectricityModerate == 100
TravelMajor == 300
TravelReplace == 100
WasteHigh == 30
WasteModerate == 15
RenewableLow == 20
MinSuggestions == 3

EnergyRule(electricity) ==
    IF electricity > ElectricityHigh THEN <<TIP_ENERGY_HIGH>>
    ELSE IF electricity > ElectricityModerate THEN <<TIP_ENERGY_MODERATE>>
    ELSE <<>>

TransportRule(vehicle_type, travel) ==
    IF vehicle_type \in {"car", "bike"} /\ travel > TravelMajor
        THEN <<TIP_TRANSPORT_MAJOR>>
    ELSE IF vehicle_type \in {"car", "bike"} /\ travel > TravelReplace
        THEN <<TIP_TRANSPORT_REPLACE>>
    ELSE IF vehicle_type \in {"bus", "train"} THEN <<TIP_TRANSPORT_KEEP>>
    ELSE <<>>

DietRule(diet) ==
    IF diet \in {"nonveg", "mixed"} THEN <<TIP_DIET_REDUCE_MEAT>>
    ELSE IF diet \in {"veg", "vegan"} THEN <<TIP_DIET_FRIENDLY>>
    ELSE <<>>

WasteRuleInclusive(waste) ==
    IF waste >= WasteHigh THEN <<TIP_WASTE_SEGREGATE>>
    ELSE IF waste >= WasteModerate THEN <<TIP_WASTE_REDUCE>>
    ELSE <<>>

WasteRule(waste) ==
    IF waste > WasteHigh THEN <<TIP_WASTE_SEGREGATE>>
    ELSE IF waste > WasteModerate THEN <<TIP_WASTE_REDUCE>>
    ELSE <<>>

RenewableRule(renewable) ==
    IF renewable < RenewableLow THEN <<TIP_RENEWABLE>> ELSE <<>>

RECURSIVE PadGenericFirst(_, _)
PadGenericFirst(list, i) ==
    IF i > Len(generic) \/ Len(list) >= MinSuggestions THEN list
    ELSE PadGenericFirst(Append(list, generic[1]), i + 1)

\* for g in generic: if len(suggestions) >= 3: break; suggestions.append(g)
RECURSIVE PadGeneric(_, _)
PadGeneric(list, i) ==
    IF i > Len(generic) \/ Len(list) >= MinSuggestions THEN list
    ELSE PadGeneric(Append(list, generic[i]), i + 1)

SuggestionStepsDietFirst(p) ==
    LET s1 == DietRule(p.diet)
        s2 == s1 \o EnergyRule(p.electricity)
        s3 == s2 \o TransportRule(p.vehicle_type, p.travel)
        s4 == s3 \o WasteRule(p.waste)
        s5 == s4 \o RenewableRule(p.renewable)
        s6 == PadGeneric(s5, 1)
    IN  <<s1, s2, s3, s4, s5, s6>>

\* The local list after each block of lines 367-433, in program order.
SuggestionSteps(p) ==
    LET s1 == EnergyRule(p.electricity)
        s2 == s1 \o TransportRule(p.vehicle_type, p.travel)
        s3 == s2 \o DietRule(p.diet)
        s4 == s3 \o WasteRule(p.waste)
        s5 == s4 \o RenewableRule(p.renewable)
        s6 == PadGeneric(s5, 1)
    IN  <<s1, s2, s3, s4, s5, s6>>

(***************************************************************************)
(* Python values used by the email code.  A dict is a function on the keys *)
(* it holds; None and {} are both the empty function (both are falsy).     *)
(* A body line is [t, n, s]: the f-string's text, its numeric argument and *)
(* its string argument (0 and "" when it has none).                        *)
(***************************************************************************)
EmptyDict == <<>>
Get(d, k, default) == IF k \in DOMAIN d THEN d[k] ELSE default
OrDefault(x, default) == IF x = 0 THEN default ELSE x
Truthy(d) == DOMAIN d # {}

L(t) == [t |-> t, n |-> 0, s |-> ""]
LN(t, n) == [t |-> t, n |-> n, s |-> ""]
LS(t, s) == [t |-> t, n |-> 0, s |-> s]
LNS(t, n, s) == [t |-> t, n |-> n, s |-> s]

\* str.capitalize() on the electricity sources the form offers.
Capitalize(s) ==
    CASE s = "coal" -> "Coal"
      [] s = "renewable" -> "Renewable"
      [] s = "mixed" -> "Mixed"
      [] OTHER -> s

\* a / b of two numbers, a in hundredths: ZeroDivisionError when b = 0,
\* otherwise the quotient as "{:.2f}" prints it (nearest hundredth).
PyDivide(a, b) ==
    IF b = 0 THEN [error |-> "ZeroDivisionError", value |-> 0]
    ELSE IF b > 0 THEN [error |-> "", value |-> (2 * a + b) \div (2 * b)]
    ELSE [error |-> "", value |-> (2 * (0 - a) + (0 - b)) \div (2 * (0 - b))]

\* household = int(inputs.get("household", 1) or 1)            (line 39)
Household(d) == OrDefault(Get(d, "household", 1), 1)

DivisorUnfloored(d) == Household(d)

\* max(household, 1)                                           (line 42)
Divisor(d) == Max(Household(d), 1)

PerCapita(ev, d) == PyDivide(ev, Divisor(d))

EnergyHighBody == 250
EnergyModerateBody == 100
EnergyTipsBody == 200
RenewableTipsBody == 40
TravelHighBody == 200
WasteHighBody == 30
WasteModerateBody == 10

EnergyLines(d) ==
    LET electricity == OrDefault(Get(d, "electricity", 0), 0)
        electricity_source == Get(d, "electricitySource", "mixed")
        lpg == OrDefault(Get(d, "lpg", 0), 0)
        renewable == OrDefault(Get(d, "renewable", 0), 0)
    IN  << L(""), L("1 Home Energy Use"),
           IF electricity > EnergyHighBody
               THEN LN("- Electricity use: {electricity:.0f} kWh/month - this is on the higher side.", electricity)
           ELSE IF electricity > EnergyModerateBody
               THEN LN("- Electricity use: {electricity:.0f} kWh/month - moderate level.", electricity)
           ELSE LN("- Electricity use: {electricity:.0f} kWh/month - relatively low.", electricity),
           LNS("- Reported electricity source: {electricity_source.capitalize()}, about {renewable:.0f}% from renewables.",
               renewable, Capitalize(electricity_source)) >>
        \o (IF lpg > 0 THEN <<LN("- LPG / cooking gas usage: {lpg:.1f} kg per month.", lpg)>> ELSE <<>>)
        \o << L("Recommended actions for energy:"),
              L("* Replace old tube lights/CFLs with LED bulbs in frequently used rooms."),
              L("* Turn off fans, lights and ACs whenever you leave the room."),
              L("* Use natural daylight and cross-ventilation to reduce the need for lights and AC.") >>
        \o (IF electricity > EnergyTipsBody
            THEN << L("* Set AC at 24-26C and keep doors/windows closed while it runs."),
                    L("* Use washing machine only with full loads and eco/quick wash modes.") >>
            ELSE <<>>)
        \o (IF renewable < RenewableTipsBody
            THEN << L("* Explore rooftop solar or green power options in your area (if available).") >>
            ELSE <<>>)

TransportLines(d) ==
    LET vehicle_type == Get(d, "vehicleType", "none")
        travel == OrDefault(Get(d, "travel", 0), 0)
        efficiency == OrDefault(Get(d, "efficiency", 0), 0)
    IN  << L(""), L("2 Transport & Travel") >>
        \o (IF vehicle_type \in {"car", "bike"} /\ travel > TravelHighBody
            THEN << LNS("- You travel about {travel:.0f} km/month using a {vehicle_type}, mostly private transport.", travel, vehicle_type),
                    L("- This is likely one of the bigger contributors to your footprint.") >>
            ELSE IF vehicle_type \in {"bus", "train"}
            THEN << LNS("- You mainly use {vehicle_type} for around {travel:.0f} km/month, which is lower-carbon than solo car use.", travel, vehicle_type) >>
            ELSE IF vehicle_type = "none"
            THEN << L("- You reported no regular motorised transport - your travel emissions are very low.") >>
            ELSE << LNS("- You travel about {travel:.0f} km/month by {vehicle_type}.", travel, vehicle_type) >>)
        \o (IF efficiency > 0 /\ vehicle_type \in {"car", "bike"}
            THEN << LN("- Vehicle efficiency: ~{efficiency:.1f} km per litre/kWh.", efficiency) >>
            ELSE <<>>)
        \o << L("Recommended actions for transport:") >>
        \o (IF vehicle_type \in {"car", "bike"}
            THEN << L("* Use public transport, metro or shared cabs for regular routes when possible."),
                    L("* Carpool with colleagues/friends to reduce solo trips."),
                    L("* Plan errands to combine multiple small trips into one journey."),
                    L("* Keep tyres properly inflated and service your vehicle regularly for better mileage.") >>
            ELSE << L("* Continue choosing public transport or non-motorised options whenever possible.") >>)
        \o << L("* For very short distances, prefer walking or cycling instead of using a vehicle.") >>

DietLines(d) ==
    LET diet == Get(d, "diet", "mixed")
    IN  << L(""), L("3 Food & Diet"),
           IF diet = "veg"
               THEN L("- You follow a vegetarian diet, which is generally lower in emissions compared to heavy meat diets.")
           ELSE IF diet = "vegan"
               THEN L("- You follow a vegan diet - one of the lowest-carbon diet patterns.")
           ELSE IF diet = "nonveg"
               THEN L("- You reported a mainly non-vegetarian diet, which tends to have a higher carbon footprint.")
           ELSE L("- You reported a mixed diet (some vegetarian and some non-vegetarian meals)."),
           L("Recommended actions for food:") >>
        \o (IF diet \in {"nonveg", "mixed"}
            THEN << L("* Try 2-3 fully vegetarian days per week to gradually lower your food emissions."),
                    L("* Reduce red meat (mutton/beef) and prefer pulses, paneer, eggs or chicken instead.") >>
            ELSE <<>>)
        \o << L("* Prefer seasonal, locally grown fruits and vegetables over heavily packaged or imported options."),
              L("* Plan meals and store leftovers properly to avoid food waste.") >>

WasteLines(d) ==
    LET waste == OrDefault(Get(d, "waste", 0), 0)
    IN  << L(""), L("4 Waste & Lifestyle"),
           IF waste > WasteHighBody
               THEN LN("- You generate about {waste:.0f} kg of waste per month - there is strong scope to reduce this.", waste)
           ELSE IF waste > WasteModerateBody
               THEN LN("- You generate about {waste:.0f} kg of waste per month - moderate level.", waste)
           ELSE LN("- You generate about {waste:.0f} kg of waste per month - relatively low.", waste),
           L("Recommended actions for waste & lifestyle:"),
           L("* Segregate waste at source: wet (organic), dry (recyclable) and reject waste."),
           L("* Compost kitchen waste such as peels, leftover food and tea powder."),
           L("* Avoid single-use plastics (bags, cutlery, straws); carry your own bottle and cloth bag."),
           L("* Repair, reuse or donate usable items instead of throwing them away quickly.") >>

\* build_personalised_body(name, emission_value, inputs): the error raised
\* ("" when none), the divisor and per-capita value of line 42, the lines.
build_personalised_body(name, ev, d) ==
    LET pc == PerCapita(ev, d)
    IN  IF pc.error # ""
        THEN [error |-> pc.error, divisor |-> Divisor(d), per_capita |-> 0, lines |-> <<>>]
        ELSE [error |-> "", divisor |-> Divisor(d), per_capita |-> pc.value,
              lines |->
                << LS("Hi {name},", name), L(""),
                   L("Thank you for using the Carbon Emission Measurement tool."),
                   L("Here is your personalised monthly carbon footprint report:"),
                   LN("-> Estimated total footprint: {emission_value:.2f} kg CO2e / month", ev),
                   LNS("-> Approx. per-person footprint: {per_capita:.2f} kg CO2e (household size: {household})",
                       pc.value, ToString(Household(d))),
                   L(""),
                   L("Below is a breakdown by category with suggestions tailored to your inputs:") >>
                \o EnergyLines(d) \o TransportLines(d) \o DietLines(d) \o WasteLines(d)
                \o << L(""), L("You don't need to change everything at once."),
                      L("Pick 2-3 actions from any section and try them this month. Small, consistent steps lead to big impact over time."),
                      L(""), L("Regards,"), L("Sustainability Assistant") >>]

(***************************************************************************)
(* send_recommendation_email (lines 175-219).  smtp_ok is the mail         *)
(* server's behaviour: TRUE when starttls, login and send_message all      *)
(* succeed.  The result carries what the call did: the SMTP sessions it    *)
(* opened and the messages it handed over.                                 *)
(***************************************************************************)
SENDER_EMAIL == "vanshikaaaaaa04@gmail.com"
DEFAULT_SUGGESTIONS == <<"Use LED bulbs", "Cycle for short trips", "Compost waste">>

FallbackBody(name, ev, suggs) ==
    LET s == IF suggs = <<>> THEN DEFAULT_SUGGESTIONS ELSE suggs
    IN  IF Len(s) < 3
        THEN [error |-> "IndexError", lines |-> <<>>]
        ELSE [error |-> "", lines |->
                << L(""), LS("Hi {name},", name), L(""),
                   LN("Your estimated carbon footprint for this month is: {emission_value:.2f} kg CO2.", ev),
                   L(""),
                   L("Here are some personalised suggestions to help reduce your emissions:"),
                   LS("- {suggestions[0]}", s[1]),
                   LS("- {suggestions[1]}", s[2]),
                   LS("- {suggestions[2]}", s[3]),
                   L(""),
                   L("Every small step counts - together, we can make a difference!"),
                   L(""), L("Regards,"), L("Sustainability Assistant") >>]

EmailContentFallback(name, ev, d, suggs) ==
    LET b == FallbackBody(name, ev, suggs)
    IN  [error |-> b.error,
         subject |-> "Your Monthly Carbon Emission Report",
         body |-> b.lines]

\* lines 180-202: the subject and body of the message.
EmailContent(name, ev, d, suggs) ==
    IF Truthy(d)
    THEN LET b == build_personalised_body(name, ev, d)
         IN  [error |-> b.error,
              subject |-> "Your Personalised Monthly Carbon Emission Report",
              body |-> b.lines]
    ELSE LET b == FallbackBody(name, ev, suggs)
         IN  [error |-> b.error,
              subject |-> "Your Monthly Carbon Emission Report",
              body |-> b.lines]

SmtpSessionsRetry(smtp_ok) == IF smtp_ok THEN 1 ELSE 2

\* lines 210-219: one `with smtplib.SMTP(...)` block, no loop around it.
SmtpSessions(smtp_ok) == 1

send_recommendation_email(to_email, name, ev, d, suggs, smtp_ok) ==
    LET c == EmailContent(name, ev, d, suggs)
        msg == [From |-> SENDER_EMAIL, To |-> to_email,
                Subject |-> c.subject, body |-> c.body]
    IN  IF c.error # ""
        THEN [error |-> c.error, ok |-> FALSE, msg |-> "", sessions |-> 0, sent |-> <<>>]
        ELSE IF smtp_ok
        THEN [error |-> "", ok |-> TRUE, msg |-> "Email sent successfully!",
              sessions |-> SmtpSessions(smtp_ok), sent |-> <<msg>>]
        ELSE [error |-> "", ok |-> FALSE, msg |-> "Error sending email: {e}",
              sessions |-> SmtpSessions(smtp_ok), sent |-> <<>>]

(***************************************************************************)
(* Python values of the chat code.  A value is [k, s, keys, items]: its    *)
(* kind; a string's text as a sequence of fragments; a dict's keys and,    *)
(* in the same order, its values; a list's items.                          *)
(***************************************************************************)
JNull == [k |-> "null", s |-> <<>>, keys |-> <<>>, items |-> <<>>]
JNum == [k |-> "num", s |-> <<>>, keys |-> <<>>, items |-> <<>>]
JStr(chars) == [k |-> "str", s |-> chars, keys |-> <<>>, items |-> <<>>]
JList(items) == [k |-> "list", s |-> <<>>, keys |-> <<>>, items |-> items]
JDict(keys, items) == [k |-> "dict", s |-> <<>>, keys |-> keys, items |-> items]

Raise(exc) == [exc |-> exc, v |-> JNull]
Value(v) == [exc |-> "", v |-> v]
HasKey(x, key) == \E i \in 1..Len(x.keys) : x.keys[i] = key
Lookup(x, key) == x.items[CHOOSE i \in 1..Len(x.keys) : x.keys[i] = key]

\* x[key] for a string key
PySubscriptKey(x, key) ==
    IF x.k = "dict" THEN (IF HasKey(x, key) THEN Value(Lookup(x, key)) ELSE Raise("KeyError"))
    ELSE Raise("TypeError")

\* x[0]
PySubscriptZero(x) ==
    CASE x.k = "list" -> IF x.items # <<>> THEN Value(x.items[1]) ELSE Raise("IndexError")
      [] x.k = "str" -> IF x.s # <<>> THEN Value(JStr(<<x.s[1]>>)) ELSE Raise("IndexError")
      [] x.k = "dict" -> Raise("KeyError")
      [] OTHER -> Raise("TypeError")

\* x.get(key, default)
PyGet(x, key, default) ==
    IF x.k = "dict" THEN Value(IF HasKey(x, key) THEN Lookup(x, key) ELSE default)
    ELSE Raise("AttributeError")

NOT_CONFIGURED == JStr(<<"Gemini API key not configured on server.">>)
PLACEHOLDER == JStr(<<"Sorry, I couldn't generate a reply.">>)
PROMPT_PREFIX ==
    "You are a friendly sustainability assistant for an Answer in 2-3 short sentences and more points if required, make it use friendly: "
HttpErrorReply == JStr(<<"Gemini HTTP error: ", "{e.response.text}">>)
RequestErrorReply(e) == JStr(<<"Gemini request error: ", e>>)

\* data["candidates"][0]["content"]["parts"][0].get("text", reply)  (line 254)
ExtractText(data, default) ==
    LET r1 == PySubscriptKey(data, "candidates")
        r2 == IF r1.exc # "" THEN r1 ELSE PySubscriptZero(r1.v)
        r3 == IF r2.exc # "" THEN r2 ELSE PySubscriptKey(r2.v, "content")
        r4 == IF r3.exc # "" THEN r3 ELSE PySubscriptKey(r3.v, "parts")
        r5 == IF r4.exc # "" THEN r4 ELSE PySubscriptZero(r4.v)
    IN  IF r5.exc # "" THEN r5 ELSE PyGet(r5.v, "text", default)

CaughtInnerAll == {"KeyError", "IndexError", "TypeError", "AttributeError"}

\* except (KeyError, IndexError, TypeError)                      (line 255)
CaughtInner == {"KeyError", "IndexError", "TypeError"}

(***************************************************************************)
(* The service's behaviour on one requests.post: the exception the post    *)
(* raises ("" when it returns), the status code, whether the body is JSON, *)
(* and the parsed body.                                                    *)
(***************************************************************************)
Response(raised, code, is_json, data) ==
    [raised |-> raised, status_code |-> code, is_json |-> is_json, data |-> data]

\* lines 248-263, after the post: the reply for a response
ReplyFor(resp) ==
    IF resp.raised # "" THEN RequestErrorReply(resp.raised)
    ELSE IF resp.status_code >= 400 THEN HttpErrorReply
    ELSE IF ~resp.is_json THEN RequestErrorReply("JSONDecodeError")
    ELSE LET r == ExtractText(resp.data, PLACEHOLDER)
         IN  IF r.exc = "" THEN r.v
             ELSE IF r.exc \in CaughtInner THEN PLACEHOLDER
             ELSE RequestErrorReply(r.exc)

Exchange(user_message, resp) ==
    [prompt |-> JStr(<<PROMPT_PREFIX>> \o user_message.s), response |-> resp]

PostsRetry(user_message, resp) ==
    IF resp.raised # "" \/ resp.status_code >= 400
    THEN <<Exchange(user_message, resp), Exchange(user_message, resp)>>
    ELSE <<Exchange(user_message, resp)>>

\* line 249: one requests.post, no loop around it
Posts(user_message, resp) == <<Exchange(user_message, resp)>>

call_geminiNoKeyCheck(user_message, resp) ==
    [reply |-> ReplyFor(resp), log |-> Posts(user_message, resp)]

\* call_gemini(user_message) when the service behaves as resp: the reply
\* and the posts made.
call_gemini(user_message, resp) ==
    IF ~api_key THEN [reply |-> NOT_CONFIGURED, log |-> <<>>]
    ELSE [reply |-> ReplyFor(resp), log |-> Posts(user_message, resp)]

(***************************************************************************)
(* The Send button's handler (tab_chat, lines 485-493).                    *)
(***************************************************************************)
Whitespace == {" ", "\t", "\n"}

RECURSIVE LStrip(_)
LStrip(q) == IF q # <<>> /\ q[1] \in Whitespace THEN LStrip(Tail(q)) ELSE q

RECURSIVE RStrip(_)
RStrip(q) ==
    IF q # <<>> /\ q[Len(q)] \in Whitespace THEN RStrip(SubSeq(q, 1, Len(q) - 1)) ELSE q

StripNothing(q) == q

\* str.strip()
Strip(q) == RStrip(LStrip(q))

MaxSends == 2

AppendYouOnly(history, q, reply) == Append(history, <<"You", JStr(q)>>)

AppendBotFirst(history, q, reply) ==
    Append(Append(history, <<"Bot", reply>>), <<"You", JStr(q)>>)

\* lines 490-491
AppendExchange(history, q, reply) ==
    Append(Append(history, <<"You", JStr(q)>>), <<"Bot", reply>>)

\* A script run in which the Calculate button is not clicked shows none of
\* the calculator's results and sends no mail.
NoCalcResults ==
    /\ inputs' = EmptyDict
    /\ chart' = EmptyDict
    /\ emission_value' = 0
    /\ suggestion_steps' = <<>>
    /\ suggestions' = <<>>
    /\ email_suggestions' = <<>>
    /\ top_suggestion' = ""
    /\ outbox' = <<>>
    /\ smtp_sessions' = 0

Send(q, resp) ==
    /\ Len(chat_history) < 2 * MaxSends
    /\ clicked' = "Send"
    /\ user_q' = q
    /\ IF Strip(q) # <<>>
       THEN LET r == call_gemini(JStr(Strip(q)), resp)
            IN  /\ chat_history' = AppendExchange(chat_history, Strip(q), r.reply)
                /\ gemini_log' = r.log
                /\ status' = <<>>
       ELSE /\ chat_history' = chat_history
            /\ gemini_log' = <<>>
            /\ status' = <<Status("warning", "Please type a question first.")>>
    /\ NoCalcResults
    /\ UNCHANGED <<api_key, form, report, call>>

\* The user changes the calculator's widgets; the script reruns with no
\* button clicked.
EditForm(p) ==
    /\ form' = p
    /\ clicked' = "none"
    /\ gemini_log' = <<>>
    /\ status' = <<>>
    /\ NoCalcResults
    /\ UNCHANGED <<api_key, user_q, chat_history, report, call>>

(***************************************************************************)
(* The Calculate button's handler (tab_calc, lines 352-475), run on the    *)
(* form as the user left it; smtp_ok is the mail server's behaviour.       *)
(***************************************************************************)
InputsDict(p) ==
    [electricity |-> p.electricity, electricitySource |-> p.electricity_source,
     lpg |-> p.lpg, vehicleType |-> p.vehicle_type, travel |-> p.travel,
     efficiency |-> p.efficiency, diet |-> p.diet, waste |-> p.waste,
     household |-> p.household, renewable |-> p.renewable]

EmailSuggestionsAll(list) == list

\* email_suggestions = suggestions[:3]                          (line 435)
EmailSuggestions(list) == SubSeq(list, 1, Min(3, Len(list)))

TopSuggestion(es) == IF es # <<>> THEN es[1] ELSE DEFAULT_TOP_SUGGESTION

Calculate(smtp_ok) ==
    LET p == form
        ev == EmissionValue(p.electricity, p.travel, p.waste, p.diet)
        steps == SuggestionSteps(p)
        list == steps[Len(steps)]
        es == EmailSuggestions(list)
        d == InputsDict(p)
        name == IF p.name = "" THEN "User" ELSE p.name
        r == send_recommendation_email(p.email, name, ev, d, es, smtp_ok)
        shown == Status("success", "Estimated monthly emissions: {emission_value:.2f} kg CO2e")
    IN  /\ clicked' = "Calculate"
        /\ emission_value' = ev
        /\ chart' = [Energy |-> EnergyEmission(p.electricity),
                     Transport |-> TransportEmission(p.travel),
                     Waste |-> WasteEmission(p.waste),
                     DietExtra |-> DietExtra(p.diet)]
        /\ suggestion_steps' = steps
        /\ suggestions' = list
        /\ email_suggestions' = es
        /\ top_suggestion' = TopSuggestion(es)
        /\ inputs' = d
        /\ IF p.email # ""
           THEN /\ outbox' = r.sent
                /\ smtp_sessions' = r.sessions
                /\ status' = IF r.error # ""
                             THEN <<shown, Status("exception", r.error)>>
                             ELSE IF r.ok THEN <<shown, Status("success", r.msg)>>
                             ELSE <<shown, Status("error", r.msg)>>
           ELSE /\ outbox' = <<>>
                /\ smtp_sessions' = 0
                /\ status' = <<shown, Status("info",
                     "Enter your email above if you want this personalised report in your inbox.")>>
        /\ gemini_log' = <<>>
        /\ UNCHANGED <<api_key, form, user_q, chat_history, report, call>>

(***************************************************************************)
(* The form's widgets (lines 331-350): the values a user can leave them at.*)
(***************************************************************************)
ElectricityValues == {0, 100, 101, 150, 250, 251, 300}
ElectricitySources == {"coal", "renewable", "mixed"}
VehicleTypes == {"car", "bike", "bus", "train", "none"}
TravelValues == {0, 100, 101, 300, 301, 400}
DietTypes == {"veg", "nonveg", "vegan", "mixed"}
WasteValues == {0, 15, 16, 20, 30, 31, 40}
RenewableValues == {0, 10, 19, 20, 100}
Emails == {"", "user@example.com"}

FormDefaults ==
    [email |-> "", name |-> "User", electricity |-> 150, electricity_source |-> "coal",
     lpg |-> 10, vehicle_type |-> "car", travel |-> 300, efficiency |-> 15,
     diet |-> "veg", waste |-> 20, household |-> 4, renewable |-> 30]

FormProfiles ==
    { [FormDefaults EXCEPT !.email = em, !.electricity = e, !.vehicle_type = v,
                           !.travel = t, !.diet = di, !.waste = w, !.renewable = r] :
        em \in Emails, e \in ElectricityValues, v \in VehicleTypes, t \in TravelValues,
        di \in DietTypes, w \in WasteValues, r \in RenewableValues }

NoCall == [done |-> FALSE, user_message |-> JNull, response |-> JNull,
           reply |-> JNull, log |-> <<>>]

NoReport == [done |-> FALSE, name |-> "", emission_value |-> 0, inputs |-> EmptyDict,
             error |-> "", divisor |-> 0, per_capita |-> 0, lines |-> <<>>]

Blank ==
    /\ user_q = <<>>
    /\ chat_history = <<>>
    /\ clicked = "none"
    /\ inputs = EmptyDict
    /\ chart = EmptyDict
    /\ emission_value = 0
    /\ suggestion_steps = <<>>
    /\ suggestions = <<>>
    /\ email_suggestions = <<>>
    /\ top_suggestion = ""
    /\ outbox = <<>>
    /\ smtp_sessions = 0
    /\ gemini_log = <<>>
    /\ status = <<>>

\* The calculator alone: the form holds any profile of the grid when the
\* button is clicked.
InitCalc ==
    /\ api_key = TRUE /\ form \in FormProfiles /\ Blank
    /\ report = NoReport /\ call = NoCall
NextCalc == \E smtp_ok \in BOOLEAN : Calculate(smtp_ok)
SpecCalc == InitCalc /\ [][NextCalc]_vars

(***************************************************************************)
(* The session: the form starts at its defaults, the transcript empty.     *)
(***************************************************************************)
Example5 ==
    [FormDefaults EXCEPT !.electricity = 300, !.vehicle_type = "car", !.travel = 400,
                         !.diet = "nonveg", !.waste = 40, !.renewable = 10]
SessionProfiles ==
    { [q EXCEPT !.email = em] : q \in {FormDefaults, Example5}, em \in Emails }

Questions ==
    { <<>>, <<" ">>, <<" ", "\t">>, <<"h", "i">>, <<" ", "h", "i", " ">>,
      <<"a", " ", "b">> }

\* The shapes a parsed reply body can have, level by level.
GoodText == JStr(<<"Use LED bulbs.">>)
TextVals == {GoodText, JNull, JNum}
PartVals ==
    {JDict(<<"text">>, <<t>>) : t \in TextVals}
        \cup {JDict(<<>>, <<>>), JDict(<<"inlineData">>, <<JNull>>), JStr(<<"x">>),
              JList(<<>>), JNum, JNull}
PartsVals ==
    {JList(<<x>>) : x \in PartVals}
        \cup {JList(<<>>), JDict(<<>>, <<>>), JStr(<<>>), JStr(<<"x", "y">>), JNum, JNull}
ContentVals ==
    {JDict(<<"parts">>, <<x>>) : x \in PartsVals}
        \cup {JDict(<<"role">>, <<JStr(<<"model">>)>>), JList(<<>>), JStr(<<"x">>), JNull}
CandidateVals ==
    {JDict(<<"content">>, <<x>>) : x \in ContentVals}
        \cup {JDict(<<"finishReason">>, <<JStr(<<"SAFETY">>)>>), JList(<<>>), JStr(<<"x">>),
              JNull}
CandidatesVals ==
    {JList(<<x>>) : x \in CandidateVals}
        \cup {JList(<<>>), JDict(<<>>, <<>>), JStr(<<>>), JStr(<<"x">>), JNum, JNull}
DataVals ==
    {JDict(<<"candidates">>, <<x>>) : x \in CandidatesVals}
        \cup {JDict(<<>>, <<>>), JDict(<<"error">>, <<JStr(<<"x">>)>>), JList(<<>>),
              JStr(<<"x">>), JNum, JNull}

Reply(text) ==
    JDict(<<"candidates">>, <<JList(<<JDict(<<"content">>,
        <<JDict(<<"parts">>, <<JList(<<JDict(<<"text">>, <<text>>)>>)>>)>>)>>)>>)

ServiceOutcomes ==
    {Response(e, 0, FALSE, JNull) : e \in {"ConnectionError", "Timeout"}}
        \cup {Response("", c, j, JNull) : c \in {429, 500}, j \in BOOLEAN}
        \cup {Response("", 200, FALSE, JNull)}
        \cup {Response("", 200, TRUE, d) : d \in DataVals}

\* One outcome of each kind, for the session.
SessionOutcomes ==
    { Response("ConnectionError", 0, FALSE, JNull),
      Response("", 500, FALSE, JNull),
      Response("", 200, FALSE, JNull),
      Response("", 200, TRUE, JDict(<<>>, <<>>)),
      Response("", 200, TRUE, Reply(GoodText)) }

Init ==
    /\ api_key \in BOOLEAN /\ form = FormDefaults /\ Blank
    /\ report = NoReport /\ call = NoCall

Next ==
    \/ \E p \in SessionProfiles : EditForm(p)
    \/ \E smtp_ok \in BOOLEAN : Calculate(smtp_ok)
    \/ \E q \in Questions, resp \in SessionOutcomes : Send(q, resp)

Spec == Init /\ [][Next]_vars

(***************************************************************************)
(* build_personalised_body on its own: any name, emission value and inputs *)
(* dict, the household key absent, zero or negative included.              *)
(***************************************************************************)
MaxHousehold == 3
BodyEmissions == {0, 1, 250, 16900, 33333}
BodyDicts ==
    {InputsDict(FormDefaults), InputsDict(Example5)}
        \cup {[electricity |-> 150, diet |-> "veg"]}
BodyInputs ==
    BodyDicts
        \cup {[x \in DOMAIN d \cup {"household"} |->
                 IF x = "household" THEN h ELSE d[x]] :
                d \in BodyDicts, h \in (0 - MaxHousehold)..MaxHousehold}

InitBody ==
    /\ api_key = TRUE /\ form = FormDefaults /\ Blank /\ call = NoCall
    /\ \E ev \in BodyEmissions, d \in BodyInputs :
           report = [NoReport EXCEPT !.name = "User", !.emission_value = ev, !.inputs = d]

ApplyBody ==
    /\ ~report.done
    /\ LET b == build_personalised_body(report.name, report.emission_value, report.inputs)
       IN  report' = [report EXCEPT !.done = TRUE, !.error = b.error,
                                    !.divisor = b.divisor, !.per_capita = b.per_capita,
                                    !.lines = b.lines]
    /\ UNCHANGED <<api_key, form, user_q, chat_history, clicked, calcVars, outbox,
                   smtp_sessions, gemini_log, status, call>>

SpecBody == InitBody /\ [][ApplyBody]_vars

(***************************************************************************)
(* call_gemini on its own: any question, any behaviour of the service.     *)
(***************************************************************************)
InitGemini ==
    /\ api_key \in BOOLEAN /\ form = FormDefaults /\ Blank /\ report = NoReport
    /\ \E q \in Questions, resp \in ServiceOutcomes :
           /\ Strip(q) # <<>>
           /\ call = [NoCall EXCEPT !.user_message = JStr(Strip(q)), !.response = resp]

ApplyGemini ==
    /\ ~call.done
    /\ LET r == call_gemini(call.user_message, call.response)
       IN  call' = [call EXCEPT !.done = TRUE, !.reply = r.reply, !.log = r.log]
    /\ UNCHANGED <<api_key, form, user_q, chat_history, clicked, calcVars, outbox,
                   smtp_sessions, gemini_log, status, report>>

SpecGemini == InitGemini /\ [][ApplyGemini]_vars

(***************************************************************************)
(* Properties of the calculator, checked under SpecCalc.                   *)
(***************************************************************************)
Calculated == clicked = "Calculate"
IsExample1 ==
    /\ form.electricity = 150 /\ form.travel = 300 /\ form.waste = 20
    /\ form.diet = "mixed"
IsExample5 ==
    /\ form.electricity = 300 /\ form.vehicle_type = "car" /\ form.travel = 400
    /\ form.diet = "nonveg" /\ form.waste = 40 /\ form.renewable = 10

\* C1: after Calculate, energy = 0.8 * electricity, transport = 0.12 * travel,
\* waste = 0.4 * waste, diet_extra is 10 for nonveg, 5 for mixed and 0 for veg
\* and vegan (no other value), and the total is the sum of the four components
\* of the chart; 150 kWh, 300 km, 20 kg, mixed gives 120 + 36 + 8 + 5 = 169.
C1_EmissionFormula ==
    Calculated =>
        /\ chart.Energy = 80 * form.electricity
        /\ chart.Transport = 12 * form.travel
        /\ chart.Waste = 40 * form.waste
        /\ chart.DietExtra = (CASE form.diet = "nonveg" -> 1000
                                [] form.diet = "mixed" -> 500
                                [] form.diet \in {"veg", "vegan"} -> 0)
        /\ chart.DietExtra \in {0, 500, 1000}
        /\ emission_value = chart.Energy + chart.Transport + chart.Waste + chart.DietExtra
        /\ IsExample1 =>
               /\ chart = [Energy |-> 12000, Transport |-> 3600, Waste |-> 800,
                           DietExtra |-> 500]
               /\ emission_value = 16900

C1_Witness == Calculated /\ IsExample1 /\ emission_value = 16900

\* C2: the suggestion list built by Calculate has length at least 3 and holds
\* no string twice.
C2_AtLeastThreeDistinct ==
    Calculated =>
        /\ Len(suggestions) >= 3
        /\ \A i, j \in 1..Len(suggestions) : i # j => suggestions[i] # suggestions[j]

\* only the diet rule fired and two generic items fill the list
C2_Witness ==
    /\ Calculated /\ Len(suggestion_steps[5]) = 1
    /\ Len(suggestions) = 3 /\ suggestions[3] = generic[2]

CategoryOf(tip) ==
    CASE tip \in {TIP_ENERGY_HIGH, TIP_ENERGY_MODERATE} -> 1
      [] tip \in {TIP_TRANSPORT_MAJOR, TIP_TRANSPORT_REPLACE, TIP_TRANSPORT_KEEP} -> 2
      [] tip \in {TIP_DIET_REDUCE_MEAT, TIP_DIET_FRIENDLY} -> 3
      [] tip \in {TIP_WASTE_SEGREGATE, TIP_WASTE_REDUCE} -> 4
      [] tip = TIP_RENEWABLE -> 5
      [] OTHER -> 0
IsGeneric(tip) == tip \in Range(generic)
CategoryPart(list) == SelectSeq(list, LAMBDA t : CategoryOf(t) > 0)
GenericPart(list) == SelectSeq(list, IsGeneric)

\* C3: the list is the tips of the rules that fired, in the order energy,
\* transport, diet, waste, renewable share, followed by the shortest prefix of
\* the generic pool that brings the length to 3: no generic item when 3 or
\* more rules fired, none before a category tip, and no step of the handler
\* removes or moves a suggestion already in the list.
C3_OrderAndPadding ==
    Calculated =>
        LET cat == CategoryPart(suggestions)
            gen == GenericPart(suggestions)
        IN  /\ suggestions = cat \o gen
            /\ cat = suggestion_steps[5]
            /\ \A i, j \in 1..Len(cat) : i < j => CategoryOf(cat[i]) < CategoryOf(cat[j])
            /\ gen = SubSeq(generic, 1, Len(gen))
            /\ Len(gen) = Max(0, 3 - Len(cat))
            /\ \A i \in 1..5 : IsPrefix(suggestion_steps[i], suggestion_steps[i + 1])
            /\ suggestion_steps[6] = suggestions

\* two rules fired (energy and diet among them) and one generic item follows
C3_Witness ==
    /\ Calculated /\ Len(CategoryPart(suggestions)) = 2
    /\ CategoryOf(suggestions[1]) = 1 /\ CategoryOf(suggestions[2]) = 3
    /\ suggestions[3] = generic[1] /\ Len(suggestions) = 3

Has(tip) == tip \in Range(suggestions)
Private == form.vehicle_type \in {"car", "bike"}
Public == form.vehicle_type \in {"bus", "train"}

\* C4: each category contributes at most one tip, the one the threshold table
\* gives: electricity > 250 high, 100 < electricity <= 250 moderate, else none;
\* car/bike with travel > 300 major, with 100 < travel <= 300 replace, else
\* none; bus/train keep-it-up at any distance; vehicle none no tip; nonveg or
\* mixed reduce-meat, veg or vegan climate-friendly; waste > 30 segregate,
\* 15 < waste <= 30 reduce, else none; renewable < 20 increase, else none.
C4_ThresholdTable ==
    Calculated =>
        /\ Has(TIP_ENERGY_HIGH) <=> form.electricity > 250
        /\ Has(TIP_ENERGY_MODERATE) <=> (100 < form.electricity /\ form.electricity <= 250)
        /\ Has(TIP_TRANSPORT_MAJOR) <=> (Private /\ form.travel > 300)
        /\ Has(TIP_TRANSPORT_REPLACE) <=>
               (Private /\ 100 < form.travel /\ form.travel <= 300)
        /\ Has(TIP_TRANSPORT_KEEP) <=> Public
        /\ Has(TIP_DIET_REDUCE_MEAT) <=> form.diet \in {"nonveg", "mixed"}
        /\ Has(TIP_DIET_FRIENDLY) <=> form.diet \in {"veg", "vegan"}
        /\ Has(TIP_WASTE_SEGREGATE) <=> form.waste > 30
        /\ Has(TIP_WASTE_REDUCE) <=> (15 < form.waste /\ form.waste <= 30)
        /\ Has(TIP_RENEWABLE) <=> form.renewable < 20
        /\ \A c \in 1..5 :
               Cardinality({i \in 1..Len(suggestions) : CategoryOf(suggestions[i]) = c}) <= 1

\* every boundary at once: 250 kWh, car with 300 km, 30 kg, 20 percent
C4_Witness ==
    /\ Calculated
    /\ form.electricity = 250 /\ Has(TIP_ENERGY_MODERATE)
    /\ form.vehicle_type = "car" /\ form.travel = 300 /\ Has(TIP_TRANSPORT_REPLACE)
    /\ form.waste = 30 /\ Has(TIP_WASTE_REDUCE)
    /\ form.renewable = 20 /\ ~Has(TIP_RENEWABLE)

Carries(line, text) == line.t = text \/ line.s = text
InBody(body, text) == \E i \in 1..Len(body) : Carries(body[i], text)
InBodyInOrder(body, a, b, c) ==
    \E i, j, k \in 1..Len(body) :
        i < j /\ j < k /\ Carries(body[i], a) /\ Carries(body[j], b) /\ Carries(body[k], c)
EmailSent == Calculated /\ outbox # <<>>

\* C5 as claimed: when Calculate sends the report email, the first three
\* entries of the suggestion list appear, in that order, as the email's top
\* suggestions; for 300 kWh, car, 400 km, nonveg, 40 kg, 10 percent all five
\* rules fire and they are the high-energy, major-transport and reduce-meat
\* tips.
C5_SuggestionsInEmail ==
    EmailSent =>
        /\ Len(suggestions) >= 3
        /\ InBodyInOrder(outbox[1].body, suggestions[1], suggestions[2], suggestions[3])
        /\ IsExample5 =>
               /\ Len(CategoryPart(suggestions)) = 5
               /\ InBodyInOrder(outbox[1].body, TIP_ENERGY_HIGH, TIP_TRANSPORT_MAJOR,
                                TIP_DIET_REDUCE_MEAT)

\* C5 as amended: when Calculate sends the report email, email_suggestions is
\* the first three entries of the suggestion list in order (the top suggestion
\* shown is the first) and is handed to the sender, but the message is the
\* personalised narrative built from the inputs and carries none of the
\* on-screen suggestions; for the example all five rules fire and
\* email_suggestions is the high-energy, major-transport, reduce-meat tips.
C5_SuggestionsNotInEmail ==
    EmailSent =>
        /\ Len(suggestions) >= 3
        /\ email_suggestions = <<suggestions[1], suggestions[2], suggestions[3]>>
        /\ top_suggestion = suggestions[1]
        /\ outbox[1].Subject = "Your Personalised Monthly Carbon Emission Report"
        /\ \A i \in 1..Len(suggestions) : ~InBody(outbox[1].body, suggestions[i])
        /\ IsExample5 =>
               /\ suggestions = <<TIP_ENERGY_HIGH, TIP_TRANSPORT_MAJOR, TIP_DIET_REDUCE_MEAT,
                                  TIP_WASTE_SEGREGATE, TIP_RENEWABLE>>
               /\ email_suggestions = <<TIP_ENERGY_HIGH, TIP_TRANSPORT_MAJOR,
                                        TIP_DIET_REDUCE_MEAT>>

C5_Witness == EmailSent /\ IsExample5 /\ Len(outbox[1].body) > 0

(***************************************************************************)
(* Property of build_personalised_body, checked under SpecBody.            *)
(***************************************************************************)
GivenHousehold == "household" \in DOMAIN report.inputs

\* C6: for every household value, zero, negative and missing included, the
\* per-capita figure is emission_value / max(household, 1): the divisor is
\* never below 1, no division by zero occurs, and for a non-negative
\* emission_value the per-capita value is never negative.
C6_DivisorFloored ==
    report.done =>
        /\ report.error = ""
        /\ report.divisor >= 1
        /\ report.divisor =
               (IF GivenHousehold /\ report.inputs.household >= 1
                THEN report.inputs.household ELSE 1)
        /\ 2 * report.per_capita * report.divisor - 2 * report.emission_value
               <= report.divisor
        /\ 2 * report.emission_value - 2 * report.per_capita * report.divisor
               <= report.divisor
        /\ report.emission_value >= 0 => report.per_capita >= 0
        /\ InBody(report.lines,
                  "-> Approx. per-person footprint: {per_capita:.2f} kg CO2e (household size: {household})")

\* a negative household: 169.00 kg is divided by 1
C6_Witness ==
    /\ report.done /\ GivenHousehold /\ report.inputs.household < 0
    /\ report.emission_value = 16900 /\ report.divisor = 1 /\ report.per_capita = 16900

(***************************************************************************)
(* Properties of the session, checked under Spec.                          *)
(***************************************************************************)
AllWhitespace(q) == \A i \in 1..Len(q) : q[i] \in {" ", "\t", "\n"}
Sent == clicked = "Send"

\* C7: a Send whose question is empty or only whitespace is rejected locally:
\* the text-generation service is not invoked for it, whatever the session's
\* state and wherever in a sequence of chat actions it comes.
C7_BlankRejectedLocally ==
    (Sent /\ AllWhitespace(user_q)) =>
        /\ gemini_log = <<>>
        /\ status = <<Status("warning", "Please type a question first.")>>

\* a whitespace-only Send after a real exchange, with the credential set
C7_Witness ==
    /\ Sent /\ api_key /\ user_q = <<" ", "\t">>
    /\ Len(chat_history) = 2 /\ gemini_log = <<>>

ResponseFailed(resp) == resp.raised # "" \/ resp.status_code >= 400

\* C8: one Calculate click makes at most one email send (none when the email
\* address is empty) and one Send click makes at most one request to the
\* text-generation service, also when the call fails: no retry.
C8_AtMostOnceNoRetry ==
    /\ Len(gemini_log) <= 1
    /\ smtp_sessions <= 1
    /\ Len(outbox) <= smtp_sessions
    /\ Calculated => gemini_log = <<>>
    /\ (Calculated /\ form.email = "") => smtp_sessions = 0
    /\ Sent => smtp_sessions = 0

\* a Send whose single request failed
C8_Witness ==
    /\ Sent /\ Len(gemini_log) = 1 /\ ResponseFailed(gemini_log[1].response)

FailedChat == Sent /\ gemini_log # <<>> /\ ResponseFailed(gemini_log[1].response)
FailedEmail == Calculated /\ smtp_sessions > 0 /\ outbox = <<>>

\* C9 as claimed: when the chat-completion call or the email call of a user
\* action fails, the transcript is the same after the action as before it.
C9_TranscriptUntouchedOnFailure ==
    [][(FailedChat' \/ FailedEmail') => chat_history' = chat_history]_vars

\* t is q without its leading and trailing whitespace
IsStripped(t, q) ==
    /\ t # <<>> /\ ~AllWhitespace(<<t[1]>>) /\ ~AllWhitespace(<<t[Len(t)]>>)
    /\ \E i \in 1..Len(q) :
           /\ i + Len(t) - 1 <= Len(q)
           /\ t = SubSeq(q, i, i + Len(t) - 1)
           /\ AllWhitespace(SubSeq(q, 1, i - 1))
           /\ AllWhitespace(SubSeq(q, i + Len(t), Len(q)))
IsErrorReply(v) ==
    v.k = "str" /\ v.s # <<>> /\ v.s[1] \in {"Gemini HTTP error: ", "Gemini request error: "}

\* C9 as amended: when the chat-completion call of a Send fails, the failure
\* is reported as the Bot's reply: the transcript grows by exactly the
\* complete pair ("You", stripped question), ("Bot", error string), never by
\* a lone "You" entry; when the email call of a Calculate fails, the failure
\* is reported as an error status message and the transcript is unchanged.
C9_FailureIsAWholeExchange ==
    [][ /\ FailedChat' =>
               /\ Len(chat_history') = Len(chat_history) + 2
               /\ SubSeq(chat_history', 1, Len(chat_history)) = chat_history
               /\ chat_history'[Len(chat_history) + 1][1] = "You"
               /\ chat_history'[Len(chat_history) + 1][2].k = "str"
               /\ IsStripped(chat_history'[Len(chat_history) + 1][2].s, user_q')
               /\ chat_history'[Len(chat_history) + 2][1] = "Bot"
               /\ IsErrorReply(chat_history'[Len(chat_history) + 2][2])
        /\ FailedEmail' =>
               /\ chat_history' = chat_history
               /\ status'[Len(status')] = Status("error", "Error sending email: {e}")
      ]_vars

\* the second exchange of a session ends in the HTTP error string
C9_Witness ==
    /\ FailedChat /\ Len(chat_history) = 4
    /\ chat_history[3] = <<"You", JStr(<<"h", "i">>)>>
    /\ chat_history[4] = <<"Bot", HttpErrorReply>>

(***************************************************************************)
(* Property of call_gemini, checked under SpecGemini.                      *)
(***************************************************************************)
\* data is {"candidates": [{"content": {"parts": [{"text": ...}, ...]}}, ...]}
ExpectedShape(data) ==
    /\ data.k = "dict" /\ HasKey(data, "candidates")
    /\ LET cs == Lookup(data, "candidates")
       IN  /\ cs.k = "list" /\ cs.items # <<>>
           /\ cs.items[1].k = "dict" /\ HasKey(cs.items[1], "content")
           /\ LET c == Lookup(cs.items[1], "content")
              IN  /\ c.k = "dict" /\ HasKey(c, "parts")
                  /\ LET ps == Lookup(c, "parts")
                     IN  /\ ps.k = "list" /\ ps.items # <<>>
                         /\ ps.items[1].k = "dict" /\ HasKey(ps.items[1], "text")
HttpSuccess(resp) == resp.raised = "" /\ resp.status_code < 400
Malformed(resp) == ~resp.is_json \/ ~ExpectedShape(resp.data)

\* C10: when the service answers with HTTP success but the reply has not the
\* expected shape (missing or empty candidates, missing content or parts, a
\* part without a text field, a level that is not the expected kind of value,
\* a body that is not JSON), call_gemini returns the fixed placeholder
\* "Sorry, I couldn't generate a reply." and no error string.
C10_MalformedGivesPlaceholder ==
    (call.done /\ api_key /\ HttpSuccess(call.response) /\ Malformed(call.response)) =>
        call.reply = PLACEHOLDER

(***************************************************************************)
(* The missing credential, checked under Spec.                             *)
(***************************************************************************)
IsNotConfigured(v) ==
    v.k = "str" /\ v.s = <<"Gemini API key not configured on server.">>

\* C11: with the API credential absent, every Send of a non-blank question
\* gets the fixed "not configured" message as the Bot's reply without any
\* request to the text-generation service, and the chat stays usable: no
\* error is shown, the exchange is appended like any other, and a Calculate
\* that follows still produces its results.
C11_NotConfiguredIsNotFatal ==
    [][~api_key =>
          /\ gemini_log' = <<>>
          /\ (Sent' /\ ~AllWhitespace(user_q')) =>
                 /\ Len(chat_history') = Len(chat_history) + 2
                 /\ chat_history'[Len(chat_history) + 1][1] = "You"
                 /\ chat_history'[Len(chat_history) + 2][1] = "Bot"
                 /\ IsNotConfigured(chat_history'[Len(chat_history) + 2][2])
                 /\ status' = <<>>
          /\ Calculated' =>
                 /\ Len(suggestions') >= 3
                 /\ status'[1].level = "success"
      ]_vars

\* a second question is answered the same way after the first
C11_Witness ==
    /\ ~api_key /\ Sent /\ Len(chat_history) = 4 /\ gemini_log = <<>>
    /\ IsNotConfigured(chat_history[2][2]) /\ IsNotConfigured(chat_history[4][2])

(***************************************************************************)
(* The transcript over a session, checked under Spec.                      *)
(***************************************************************************)
Alternates(h) ==
    /\ Len(h) % 2 = 0
    /\ \A i \in 1..Len(h) : h[i][1] = (IF i % 2 = 1 THEN "You" ELSE "Bot")

\* C12: over any sequence of user actions the transcript is append-only: the
\* transcript before an action is a prefix of the transcript after it; a Send
\* with a non-blank question appends exactly two entries, ("You", stripped
\* question) immediately followed by ("Bot", reply), so the transcript has
\* even length and alternates You/Bot; a blank Send and a Calculate leave it
\* unchanged.
C12_TranscriptAppendOnly ==
    [][ /\ IsPrefix(chat_history, chat_history')
        /\ (Sent' /\ ~AllWhitespace(user_q')) =>
               /\ Len(chat_history') = Len(chat_history) + 2
               /\ chat_history'[Len(chat_history) + 1][1] = "You"
               /\ chat_history'[Len(chat_history) + 1][2].k = "str"
               /\ IsStripped(chat_history'[Len(chat_history) + 1][2].s, user_q')
               /\ chat_history'[Len(chat_history) + 2][1] = "Bot"
        /\ (Sent' /\ AllWhitespace(user_q')) => chat_history' = chat_history
        /\ Calculated' => chat_history' = chat_history
        /\ Alternates(chat_history')
      ]_vars

\* a Calculate after two exchanges, the second asked with surrounding blanks
C12_Witness ==
    /\ Calculated /\ Len(chat_history) = 4 /\ Alternates(chat_history)
    /\ user_q = <<" ", "h", "i", " ">>
    /\ chat_history[3] = <<"You", JStr(<<"h", "i">>)>>

====
